---------------------------- MODULE Spec2Model ----------------------------
(***************************************************************************)
(* Challenge coordination service of browser_captcha_solver: the registry  *)
(* CaptchaSolver.challenges, the callback table solution_callbacks, the    *)
(* thread-per-request GET handler, the waiter of solve_challenge and the   *)
(* caller-invoked cleanup and list operations.                             *)
(*                                                                         *)
(* Time is counted in ticks of half a second (the waiter's sleep interval).*)
(* Every shared-memory access of a multi-step operation is a step of its   *)
(* own, so that the interleavings of the handler threads are explored.     *)
(***************************************************************************)
EXTENDS Integers, Sequences, FiniteSets, TLC

\* ------------------------------------------------------------------ bounds
MaxChallenges == 2      \* challenge objects that create_challenge may allocate
MaxTime == 2            \* the wall clock stops at this many ticks
MaxCalls == 2           \* solve_challenge calls the application's thread makes
MaxServers == 3         \* server objects that start_server may construct

\* ------------------------------------------------------ program constants
TicksPerSec == 2        \* time.sleep(0.5): one tick is the poll interval
DefaultTimeout == 300   \* CaptchaChallenge.timeout default, in seconds

Ids == 1..MaxChallenges
Req == {"r1", "r2"}                     \* worker threads of ThreadingHTTPServer
Timeouts == {1, 2}                      \* timeout= passed to create_challenge, seconds
WaitTimeouts == {0, 1}                  \* timeout= passed to solve_challenge; 0 is None
Actions == {"loaded", "canClose", "solve", "unload", "other", "none"}
Paths == {"/captcha/", "/captcha.js", "/style.css"}   \* parsed_url.path
NetworkError == 0                       \* requests.post raised: no upstream status
Upstreams == {NetworkError, 200, 403}   \* what the forwarded call comes back with
ApiPath == "/captcha/recaptchav2/h/recaptcha/api2/reload"
ProxyPath == "/captcha/recaptchav2/h/proxy/reload"
PostPaths == {ApiPath, ProxyPath, "/captcha/"}     \* self.path of a POST
\* response.content of the upstream, as a sequence of pieces: "api" is an
\* occurrence of https://www.google.com/recaptcha/api2/, "x" one other byte
UpstreamBodies == {<<"x">>, <<"api", "x">>}
RawResponses == {"absent", "", "a", "%2562"}   \* response= as it stands in the query
None == "None"                           \* None as a string value
NoId == 0                               \* params.get('id', [None])[0] is None; no record
NoSrv == 0                              \* self.server / self.server_thread is None
AnyPort == 0                            \* port=0: the system picks a free port
Srvs == 1..MaxServers                   \* ThreadingHTTPServer objects
Ports == 1..MaxServers                  \* port numbers the system hands out
Callers == {"t1", "t2"}                 \* threads of the application

VARIABLES
    now,                \* time.time() / datetime.now(), in ticks
    nextId,             \* uuid4: the next identifier never used before
    created,            \* CaptchaChallenge.created, per object
    timeout,            \* CaptchaChallenge.timeout, per object (seconds)
    solved,             \* CaptchaChallenge.solved
    result,             \* CaptchaChallenge.result
    challenges,         \* CaptchaSolver.challenges: keys in insertion order
    solution_callbacks, \* CaptchaSolver.solution_callbacks: ids with a callback
    invoked,            \* per id: how often its callback has run
    in_time,            \* history, per id: solved was first set while the challenge
                        \* was not expired and before a wait on it had timed out
    rq,                 \* the request handler threads
    w,                  \* the thread blocked in solve_challenge
    cl,                 \* the thread in cleanup_expired_challenges
    ls,                 \* the thread in list_challenges
    server,             \* CaptchaSolver.server
    port,               \* CaptchaSolver.port
    server_thread,      \* CaptchaSolver.server_thread: the server it serves
    address,            \* per server object: server_address[1]
    listening,          \* server objects whose socket is bound and open
    serving,            \* server objects whose serve_forever loop runs
    nextSrv,            \* the next server object
    ct,                 \* the application's threads in start/stop/with
    solver2             \* a second CaptchaSolver of the process: its server
                        \* and port fields

appVars == <<now, nextId, created, timeout, solved, result, challenges,
             solution_callbacks, invoked, in_time, rq, w, cl, ls>>

srvVars == <<server, port, server_thread, address, listening, serving,
             nextSrv, ct, solver2>>

vars == <<appVars, srvVars>>

objVars == <<created, timeout, solved, result>>

\* --------------------------------------------------------------- helpers
Range(s) == {s[i] : i \in 1..Len(s)}

Allocated == 1..(nextId - 1)

Remove(s, x) == SelectSeq(s, LAMBDA y : y # x)

\* urllib.parse percent-decoding, applied once, on the strings of the model
PercentDecode(s) ==
    CASE s = "%2562" -> "%62"
      [] s = "%62"   -> "b"
      [] OTHER       -> s

\* parse_qs(query).get('response', [None])[0]: the value is percent-decoded,
\* and a blank value is dropped (keep_blank_values is False)
parse_qs_response(raw) ==
    IF raw = "absent" \/ raw = "" THEN None ELSE PercentDecode(raw)

unquote(s) == PercentDecode(s)

\* CaptchaChallenge.get_remaining_timeout at time t:
\* max(0, int(timeout - elapsed)), int() truncating toward zero
RemainingAt(c, t) ==
    LET d == timeout[c] * TicksPerSec - (t - created[c])
    IN  IF d <= 0 THEN 0 ELSE d \div TicksPerSec

get_remaining_timeout(c) == RemainingAt(c, now)

ExpiredAt(c, t) == RemainingAt(c, t) <= 0

is_expired(c) == get_remaining_timeout(c) <= 0

\* get_challenge that still resolves an id after cleanup has removed it
get_challenge_allocated(id) == IF id \in Allocated THEN id ELSE NoId

\* CaptchaSolver.get_challenge: dict.get
get_challenge(id) == IF id \in Range(challenges) THEN id ELSE NoId

\* ------------------------------------------------------------------ Init
IdleReq == [pc |-> "idle", method |-> "GET", id |-> NoId, path |-> "/captcha/",
            ch |-> NoId, act |-> "none", resp |-> None,
            cb |-> FALSE, raised |-> FALSE, upstream |-> NetworkError,
            calls |-> 0, status |-> 0, body |-> None,
            announced |-> 0, written |-> 0]
IdleWaiter == [pc |-> "idle", calls |-> 1, ch |-> NoId, timeout |-> 0,
               opened |-> TRUE, start |-> 0, wake |-> 0, ret |-> None]
IdleCleanup == [pc |-> "idle", size |-> 0, idx |-> 1, expired |-> <<>>,
                err |-> None, again |-> FALSE, left |-> <<>>]
IdleList == [pc |-> "idle", size |-> 0, idx |-> 1, jobs |-> <<>>, err |-> None]
IdleCaller == [pc |-> "idle", op |-> "none", exc |-> FALSE, scope |-> "out",
               ret |-> 0, err |-> None]

Init ==
    /\ now = 0
    /\ nextId = 1
    /\ created = [c \in Ids |-> 0]
    /\ timeout = [c \in Ids |-> DefaultTimeout]
    /\ solved = [c \in Ids |-> FALSE]
    /\ result = [c \in Ids |-> None]
    /\ challenges = <<>>
    /\ solution_callbacks = {}
    /\ invoked = [c \in Ids |-> 0]
    /\ in_time = [c \in Ids |-> FALSE]
    /\ rq = [r \in Req |-> IdleReq]
    /\ w = IdleWaiter
    /\ cl = IdleCleanup
    /\ ls = IdleList
    /\ server = NoSrv
    /\ port = AnyPort
    /\ server_thread = NoSrv
    /\ address = [s \in Srvs |-> 0]
    /\ listening = {}
    /\ serving = {}
    /\ nextSrv = 1
    /\ ct = [t \in Callers |-> IdleCaller]
    /\ solver2 = [server |-> NoSrv, port |-> AnyPort, err |-> None]

\* ------------------------------------------------------------ wall clock
\* A poll of the waiter (a handful of attribute reads) takes no measurable
\* time next to the half second it sleeps, and its thread runs again as soon
\* as the sleep is over: where the waiter runs, the clock advances only
\* while it sleeps or is not waiting.
WaiterComputing ==
    \/ w.pc \in {"open", "loop", "check", "read"}
    \/ w.pc = "sleep" /\ now >= w.wake

\* Tick for a wall clock that is set back as well as forward
Tick_set_back ==
    /\ \/ now < MaxTime /\ now' = now + 1
       \/ now > 0 /\ now' = now - 1
    /\ UNCHANGED <<srvVars, nextId, created, timeout, solved, result, challenges,
                   solution_callbacks, invoked, in_time, rq, w, cl, ls>>

Tick ==
    /\ now < MaxTime
    /\ now' = now + 1
    /\ UNCHANGED <<srvVars, nextId, created, timeout, solved, result, challenges,
                   solution_callbacks, invoked, in_time, rq, w, cl, ls>>

\* ------------------------------------------------------- create_challenge
\* CaptchaChallenge(...) with a fresh uuid4 and created = now, stored under
\* its id by one dict assignment.
create_challenge(t) ==
    /\ nextId <= MaxChallenges
    /\ created' = [created EXCEPT ![nextId] = now]
    /\ timeout' = [timeout EXCEPT ![nextId] = t]
    /\ challenges' = Append(challenges, nextId)
    /\ nextId' = nextId + 1
    /\ UNCHANGED <<srvVars, now, solved, result, solution_callbacks, invoked,
                   in_time, rq, w, cl, ls>>

\* create_challenge(..., id=k, timeout=t): **kwargs reaches the dataclass, so
\* the caller's id replaces the uuid4 default.  With an id that was used
\* before, the dict assignment puts the new record (unsolved, created now)
\* in the place of the record stored under k, or stores it anew when cleanup
\* had removed k.  The record of an id is the one the registry holds: this
\* step is for callers that keep no reference to the record it replaces.
create_challenge_id(k, t) ==
    /\ k \in Allocated
    /\ created' = [created EXCEPT ![k] = now]
    /\ timeout' = [timeout EXCEPT ![k] = t]
    /\ solved' = [solved EXCEPT ![k] = FALSE]
    /\ result' = [result EXCEPT ![k] = None]
    /\ challenges' = IF k \in Range(challenges) THEN challenges
                     ELSE Append(challenges, k)
    /\ UNCHANGED <<srvVars, now, nextId, solution_callbacks, invoked,
                   in_time, rq, w, cl, ls>>

\* --------------------------------------------- CaptchaHTTPHandler.do_GET
Set(r, rec) == rq' = [rq EXCEPT ![r] = rec]

\* _handle_can_close: the body is b'true' when solved or expired
handle_can_close(c) == solved[c] \/ is_expired(c)

\* the dispatch of do_GET for a request without a state-changing action:
\* loaded and unload answer OK, canClose its boolean, and without an action
\* the path decides between the script, the style sheet and the page
Dispatch(path, c, act) ==
    CASE act \in {"loaded", "unload"} -> "OK"
      [] act = "canClose" -> IF handle_can_close(c) THEN "true" ELSE "false"
      [] act \in {"other", "none"} /\ path = "/captcha.js" -> "js"
      [] act \in {"other", "none"} /\ path = "/style.css" -> "css"
      [] OTHER -> "html"

\* do_GET with an unload that forgets the challenge: _handle_unload deletes
\* the record from the registry
do_GET_unload_forgets(r, path, id, act, raw) ==
    /\ rq[r].pc = "idle"
    /\ IF id = NoId \/ get_challenge(id) = NoId
       THEN /\ Set(r, [IdleReq EXCEPT !.pc = "done", !.id = id, !.path = path,
                                      !.act = act, !.status = 404])
            /\ challenges' = challenges
       ELSE IF act = "solve"
       THEN /\ Set(r, [IdleReq EXCEPT !.pc = "solve", !.id = id, !.ch = id,
                                      !.act = act,
                                      !.resp = parse_qs_response(raw)])
            /\ challenges' = challenges
       ELSE /\ Set(r, [IdleReq EXCEPT !.pc = "done", !.id = id, !.path = path,
                                      !.ch = id, !.act = act, !.status = 200,
                                      !.body = Dispatch(path, id, act)])
            /\ challenges' = IF act = "unload" THEN Remove(challenges, id)
                              ELSE challenges
    /\ UNCHANGED <<srvVars, now, nextId, objVars, solution_callbacks,
                   invoked, in_time, w, cl, ls>>

\* do_GET on a server that handles one request at a time (HTTPServer without
\* ThreadingMixIn): a request is taken when no other is being handled
do_GET_serial(r, path, id, act, raw) ==
    /\ rq[r].pc = "idle"
    /\ \A q \in Req \ {r} : rq[q].pc \in {"idle", "done"}
    /\ IF id = NoId \/ get_challenge(id) = NoId
       THEN Set(r, [IdleReq EXCEPT !.pc = "done", !.id = id, !.path = path,
                                   !.act = act, !.status = 404])
       ELSE IF act = "solve"
       THEN Set(r, [IdleReq EXCEPT !.pc = "solve", !.id = id, !.ch = id,
                                   !.act = act,
                                   !.resp = parse_qs_response(raw)])
       ELSE Set(r, [IdleReq EXCEPT !.pc = "done", !.id = id, !.path = path,
                                   !.ch = id, !.act = act, !.status = 200,
                                   !.body = Dispatch(path, id, act)])
    /\ UNCHANGED <<srvVars, now, nextId, objVars, challenges, solution_callbacks,
                   invoked, in_time, w, cl, ls>>

\* do_GET up to the dispatch: parse the query, resolve the id through the
\* registry, answer 404 on a miss.  loaded, unload, canClose, the assets and
\* the page are answered in the same step (they read the record once and
\* write nothing); do=solve continues in _handle_solve with the record it
\* was handed (and never looks at the path again).
do_GET(r, path, id, act, raw) ==
    /\ rq[r].pc = "idle"
    /\ IF id = NoId \/ get_challenge(id) = NoId
       THEN Set(r, [IdleReq EXCEPT !.pc = "done", !.id = id, !.path = path,
                                   !.act = act, !.status = 404])
       ELSE IF act = "solve"
       THEN Set(r, [IdleReq EXCEPT !.pc = "solve", !.id = id, !.ch = id,
                                   !.act = act,
                                   !.resp = parse_qs_response(raw)])
       ELSE Set(r, [IdleReq EXCEPT !.pc = "done", !.id = id, !.path = path,
                                   !.ch = id, !.act = act, !.status = 200,
                                   !.body = Dispatch(path, id, act)])
    /\ UNCHANGED <<srvVars, now, nextId, objVars, challenges, solution_callbacks,
                   invoked, in_time, w, cl, ls>>

\* '/recaptcha/api2/' in self.path
InApi2(path) == path = ApiPath

\* _modify_recaptcha_js on one URL of the script served for challenge c: the
\* prefix https://www.google.com/recaptcha/api2/ becomes
\* http://<Host>/captcha/recaptchav2/<host>/proxy/ and the rest of the URL
\* (here: reload) stays; no id parameter is added.  Other URLs are kept.
modify_recaptcha_js(url, c) ==
    IF url.origin = "https://www.google.com" /\ url.path = "/recaptcha/api2/reload"
    THEN [origin |-> "http://localhost", path |-> ProxyPath, id |-> NoId]
    ELSE url

\* the bytes of one piece of a body: the API prefix has 38, the proxy prefix
\* http://localhost:8080/captcha/recaptchav2/h/proxy/ has 50, the appended
\* submitCaptchaSolution function some 250
Bytes(piece) ==
    CASE piece = "api" -> 38
      [] piece = "proxy" -> 50
      [] piece = "handler" -> 250
      [] OTHER -> 1

RECURSIVE BodyBytes(_)
BodyBytes(js) == IF js = <<>> THEN 0 ELSE Bytes(Head(js)) + BodyBytes(Tail(js))

\* _modify_recaptcha_js on the script's text: every occurrence of the API
\* prefix is replaced by the proxy prefix, and the solve handler is appended
modify_recaptcha_js_content(js, c) ==
    [i \in 1..Len(js) |-> IF js[i] = "api" THEN "proxy" ELSE js[i]]
        \o <<"handler">>

\* _proxy_recaptcha_request's content: the upstream's body, rewritten when
\* its Content-Type starts with application/javascript
ProxiedContent(script, js, c) ==
    IF script THEN modify_recaptcha_js_content(js, c) ELSE js

\* do_POST: the same resolution of the id; a path that contains
\* /recaptcha/api2/ goes to _proxy_recaptcha_request, which forwards the body
\* with one requests.post and relays the upstream's status code and its
\* headers (Content-Length among them: the length of the upstream's body),
\* and writes the content; it answers 500 when forwarding raised.  Any other
\* path is answered 404.  No challenge is written.
do_POST(r, path, id, upstream, script, js) ==
    /\ rq[r].pc = "idle"
    /\ IF id = NoId \/ get_challenge(id) = NoId
       THEN Set(r, [IdleReq EXCEPT !.pc = "done", !.method = "POST",
                                   !.path = path, !.id = id, !.status = 404])
       ELSE IF InApi2(path)
       THEN IF upstream = NetworkError
            THEN Set(r, [IdleReq EXCEPT !.pc = "done", !.method = "POST",
                                        !.path = path, !.id = id, !.ch = id,
                                        !.upstream = upstream, !.calls = 1,
                                        !.status = 500])
            ELSE Set(r, [IdleReq EXCEPT
                           !.pc = "done", !.method = "POST",
                           !.path = path, !.id = id, !.ch = id,
                           !.upstream = upstream, !.calls = 1,
                           !.status = upstream,
                           !.body = IF script THEN "js" ELSE "data",
                           !.announced = BodyBytes(js),
                           !.written =
                               BodyBytes(ProxiedContent(script, js, id))])
       ELSE Set(r, [IdleReq EXCEPT !.pc = "done", !.method = "POST",
                                   !.path = path, !.id = id, !.ch = id,
                                   !.status = 404])
    /\ UNCHANGED <<srvVars, now, nextId, objVars, challenges,
                   solution_callbacks, invoked, in_time, w, cl, ls>>

\* handle_solve_result with the two writes in the wrong order: the flag is
\* raised before the result is stored
handle_solve_result_flag_first(r) ==
    /\ rq[r].pc = "solve"
    /\ IF rq[r].resp # None
       THEN /\ solved' = [solved EXCEPT ![rq[r].ch] = TRUE]
            /\ Set(r, [rq[r] EXCEPT !.pc = "set_solved"])
       ELSE /\ solved' = solved
            /\ Set(r, [rq[r] EXCEPT !.pc = "done", !.status = 200])
    /\ UNCHANGED <<srvVars, now, nextId, created, timeout, result, challenges,
                   solution_callbacks, invoked, in_time, w, cl, ls>>

\* handle_solve_result writing the flag from the token on every request:
\* challenge.solved = bool(response_token)
handle_solve_result_flag_from_token(r) ==
    /\ rq[r].pc = "solve"
    /\ IF rq[r].resp # None
       THEN /\ result' = [result EXCEPT ![rq[r].ch] = unquote(rq[r].resp)]
            /\ solved' = solved
            /\ Set(r, [rq[r] EXCEPT !.pc = "set_solved"])
       ELSE /\ result' = result
            /\ solved' = [solved EXCEPT ![rq[r].ch] = FALSE]
            /\ Set(r, [rq[r] EXCEPT !.pc = "done", !.status = 200])
    /\ UNCHANGED <<srvVars, now, nextId, created, timeout, challenges,
                   solution_callbacks, invoked, in_time, w, cl, ls>>

\* handle_solve_result testing the token for presence only
\* (if response_token is not None): a request without a token stores the
\* empty result and goes on as a solution
handle_solve_result_unchecked(r) ==
    /\ rq[r].pc = "solve"
    /\ result' = [result EXCEPT ![rq[r].ch] =
                      IF rq[r].resp # None THEN unquote(rq[r].resp) ELSE ""]
    /\ Set(r, [rq[r] EXCEPT !.pc = "set_solved"])
    /\ UNCHANGED <<srvVars, now, nextId, created, timeout, solved, challenges,
                   solution_callbacks, invoked, in_time, w, cl, ls>>

\* _handle_solve, first write: challenge.result = unquote(response_token);
\* without a token the confirmation page is sent at once
handle_solve_result(r) ==
    /\ rq[r].pc = "solve"
    /\ IF rq[r].resp # None
       THEN /\ result' = [result EXCEPT ![rq[r].ch] = unquote(rq[r].resp)]
            /\ Set(r, [rq[r] EXCEPT !.pc = "set_solved"])
       ELSE /\ result' = result
            /\ Set(r, [rq[r] EXCEPT !.pc = "done", !.status = 200])
    /\ UNCHANGED <<srvVars, now, nextId, created, timeout, solved, challenges,
                   solution_callbacks, invoked, in_time, w, cl, ls>>

\* _handle_solve, second write: challenge.solved = True
handle_solve_solved(r) ==
    /\ rq[r].pc = "set_solved"
    /\ solved' = [solved EXCEPT ![rq[r].ch] = TRUE]
    /\ in_time' = [in_time EXCEPT ![rq[r].ch] =
                        IF solved[rq[r].ch] THEN @
                        ELSE /\ ~is_expired(rq[r].ch)
                             /\ \/ w.ch # rq[r].ch
                                \/ w.pc = "open"
                                \/ now - w.start < w.timeout * TicksPerSec]
    /\ Set(r, [rq[r] EXCEPT !.pc = "cb_get"])
    /\ UNCHANGED <<srvVars, now, nextId, created, timeout, result, challenges,
                   solution_callbacks, invoked, w, cl, ls>>

\* _on_captcha_solved: callback = self.solution_callbacks.get(challenge.id)
on_captcha_solved_get(r) ==
    /\ rq[r].pc = "cb_get"
    /\ IF rq[r].ch \in solution_callbacks
       THEN Set(r, [rq[r] EXCEPT !.pc = "cb_call", !.cb = TRUE])
       ELSE Set(r, [rq[r] EXCEPT !.pc = "done", !.status = 200])
    /\ UNCHANGED <<srvVars, now, nextId, objVars, challenges, solution_callbacks,
                   invoked, in_time, w, cl, ls>>

\* on_captcha_solved_call without try/except/finally: an exception of the
\* callback leaves _on_captcha_solved and reaches do_GET's except, which
\* answers 500
on_captcha_solved_call_uncaught(r) ==
    /\ rq[r].pc = "cb_call"
    /\ invoked' = [invoked EXCEPT ![rq[r].ch] = @ + 1]
    /\ \E raises \in BOOLEAN :
          IF raises
          THEN Set(r, [rq[r] EXCEPT !.pc = "done", !.raised = TRUE,
                                    !.status = 500])
          ELSE Set(r, [rq[r] EXCEPT !.pc = "cb_del"])
    /\ UNCHANGED <<srvVars, now, nextId, objVars, challenges, solution_callbacks,
                   in_time, w, cl, ls>>

\* _on_captcha_solved: callback(challenge); an exception it raises is caught
\* and logged, and the finally clause runs either way
on_captcha_solved_call(r) ==
    /\ rq[r].pc = "cb_call"
    /\ invoked' = [invoked EXCEPT ![rq[r].ch] = @ + 1]
    /\ \E raises \in BOOLEAN :
          Set(r, [rq[r] EXCEPT !.pc = "cb_del", !.raised = raises])
    /\ UNCHANGED <<srvVars, now, nextId, objVars, challenges, solution_callbacks,
                   in_time, w, cl, ls>>

\* on_captcha_solved_del emptying the table: self.solution_callbacks.clear()
on_captcha_solved_del_all(r) ==
    /\ rq[r].pc = "cb_del"
    /\ solution_callbacks' = {}
    /\ Set(r, [rq[r] EXCEPT !.pc = "done", !.status = 200])
    /\ UNCHANGED <<srvVars, now, nextId, objVars, challenges, invoked, in_time,
                   w, cl, ls>>

\* _on_captcha_solved: finally: del self.solution_callbacks[challenge.id].
\* A missing key raises KeyError out of the finally clause; do_GET's
\* except Exception answers 500.
on_captcha_solved_del(r) ==
    /\ rq[r].pc = "cb_del"
    /\ IF rq[r].ch \in solution_callbacks
       THEN /\ solution_callbacks' = solution_callbacks \ {rq[r].ch}
            /\ Set(r, [rq[r] EXCEPT !.pc = "done", !.status = 200])
       ELSE /\ solution_callbacks' = solution_callbacks
            /\ Set(r, [rq[r] EXCEPT !.pc = "done", !.status = 500])
    /\ UNCHANGED <<srvVars, now, nextId, objVars, challenges, invoked, in_time,
                   w, cl, ls>>

\* the response is written and the worker thread ends
finish_request(r) ==
    /\ rq[r].pc = "done"
    /\ Set(r, IdleReq)
    /\ UNCHANGED <<srvVars, now, nextId, objVars, challenges, solution_callbacks,
                   invoked, in_time, w, cl, ls>>

\* --------------------------------------------- CaptchaSolver.solve_challenge
\* timeout or challenge.timeout
EffectiveTimeout(c, t) == IF t = 0 THEN timeout[c] ELSE t

\* solve_challenge up to _open_browser: register the callback.  The caller
\* holds the object create_challenge returned, whether or not the registry
\* still holds it.  The call is made when its wait can end within the
\* clock's range: by its deadline, or at the first poll of a challenge that
\* is_expired() already.
solve_challenge(c, t, cb) ==
    /\ w.pc = "idle"
    /\ c \in Allocated
    /\ \/ now + EffectiveTimeout(c, t) * TicksPerSec <= MaxTime
       \/ is_expired(c)
    /\ solution_callbacks' = IF cb THEN solution_callbacks \cup {c}
                             ELSE solution_callbacks
    /\ w' = [w EXCEPT !.pc = "open", !.ch = c,
                      !.timeout = EffectiveTimeout(c, t)]
    /\ UNCHANGED <<srvVars, now, nextId, objVars, challenges, invoked, in_time,
                   rq, cl, ls>>

\* _open_browser (best effort, failures are logged), then
\* _wait_for_solution: start_time = time.time()
wait_for_solution_start ==
    /\ w.pc = "open"
    /\ w' = [w EXCEPT !.pc = "loop", !.start = now]
    /\ UNCHANGED <<srvVars, now, nextId, objVars, challenges, solution_callbacks,
                   invoked, in_time, rq, cl, ls>>

\* _open_browser when Popen or webbrowser.open raises: the except branch
\* logs the failure and returns; solve_challenge goes on to
\* _wait_for_solution as above.
open_browser_failed ==
    /\ w.pc = "open"
    /\ w' = [w EXCEPT !.pc = "loop", !.opened = FALSE, !.start = now]
    /\ UNCHANGED <<srvVars, now, nextId, objVars, challenges, solution_callbacks,
                   invoked, in_time, rq, cl, ls>>

\* wait_for_solution_loop without its deadline: while True
wait_for_solution_loop_forever ==
    /\ w.pc = "loop"
    /\ w' = [w EXCEPT !.pc = "check"]
    /\ UNCHANGED <<srvVars, now, nextId, objVars, challenges, solution_callbacks,
                   invoked, in_time, rq, cl, ls>>

\* while time.time() - start_time < timeout: ... ; return None
wait_for_solution_loop ==
    /\ w.pc = "loop"
    /\ IF now - w.start < w.timeout * TicksPerSec
       THEN w' = [w EXCEPT !.pc = "check"]
       ELSE w' = [w EXCEPT !.pc = "done", !.ret = None]
    /\ UNCHANGED <<srvVars, now, nextId, objVars, challenges, solution_callbacks,
                   invoked, in_time, rq, cl, ls>>

\* if challenge.solved: return ...; if challenge.is_expired(): break;
\* time.sleep(0.5)
wait_for_solution_check ==
    /\ w.pc = "check"
    /\ IF solved[w.ch]
       THEN w' = [w EXCEPT !.pc = "read"]
       ELSE IF is_expired(w.ch)
       THEN w' = [w EXCEPT !.pc = "done", !.ret = None]
       ELSE w' = [w EXCEPT !.pc = "sleep", !.wake = now + 1]
    /\ UNCHANGED <<srvVars, now, nextId, objVars, challenges, solution_callbacks,
                   invoked, in_time, rq, cl, ls>>

\* return challenge.result
wait_for_solution_return ==
    /\ w.pc = "read"
    /\ w' = [w EXCEPT !.pc = "done", !.ret = result[w.ch]]
    /\ UNCHANGED <<srvVars, now, nextId, objVars, challenges, solution_callbacks,
                   invoked, in_time, rq, cl, ls>>

\* time.sleep(0.5) returns once half a second has passed
wait_for_solution_wake ==
    /\ w.pc = "sleep"
    /\ now >= w.wake
    /\ w' = [w EXCEPT !.pc = "loop"]
    /\ UNCHANGED <<srvVars, now, nextId, objVars, challenges, solution_callbacks,
                   invoked, in_time, rq, cl, ls>>

\* solve_challenge has returned its value to the application, whose thread
\* is free for its next call (w.calls numbers the calls)
solve_challenge_returned ==
    /\ w.pc = "done"
    /\ w.calls < MaxCalls
    /\ w' = [IdleWaiter EXCEPT !.calls = w.calls + 1]
    /\ UNCHANGED <<srvVars, now, nextId, objVars, challenges, solution_callbacks,
                   invoked, in_time, rq, cl, ls>>

\* ------------------------------------------- the two handlers as routers
\* A request as both handler classes see it: the method, the path, the id,
\* do and response parameters, what the upstream would answer to a forwarded
\* POST, and whether the handler was constructed with a solver
\* (solver_instance; the solver always passes itself).
GetRequests ==
    [method : {"GET"}, path : Paths, id : Ids \cup {NoId}, act : Actions,
     raw : RawResponses, upstream : {NetworkError}, has_solver : BOOLEAN]

PostRequests ==
    [method : {"POST"}, path : PostPaths, id : Ids \cup {NoId}, act : {"none"},
     raw : {"absent"}, upstream : Upstreams, has_solver : BOOLEAN]

\* what a handler run to its response has done: the branch it took, the
\* status it sent, and the challenge fields and callback table it leaves
Answer(branch, status) ==
    [branch |-> branch, status |-> status, solved |-> solved,
     result |-> result, callbacks |-> solution_callbacks,
     invoked |-> invoked]

\* CaptchaSolver._on_captcha_solved run to its end on an answer
Notified(a, c) ==
    IF c \in a.callbacks
    THEN [a EXCEPT !.invoked[c] = @ + 1, !.callbacks = @ \ {c}]
    ELSE a

\* solver.py, CaptchaHTTPHandler._handle_solve
solver_handle_solve(q) ==
    LET token == parse_qs_response(q.raw)
        a == Answer("solve", 200)
    IN  IF token # None
        THEN Notified([a EXCEPT !.result[q.id] = unquote(token),
                                !.solved[q.id] = TRUE], q.id)
        ELSE a

\* solver.py, CaptchaHTTPHandler.do_GET and do_POST
solver_handler(q) ==
    IF q.id = NoId \/ ~q.has_solver THEN Answer("not_found", 404)
    ELSE IF get_challenge(q.id) = NoId THEN Answer("not_found", 404)
    ELSE IF q.method = "GET"
    THEN CASE q.act = "loaded" -> Answer("loaded", 200)
           [] q.act = "canClose" -> Answer("canClose", 200)
           [] q.act = "solve" -> solver_handle_solve(q)
           [] q.act = "unload" -> Answer("unload", 200)
           [] OTHER -> Answer(Dispatch(q.path, q.id, q.act), 200)
    ELSE IF InApi2(q.path)
    THEN Answer("proxy", IF q.upstream = NetworkError THEN 500
                         ELSE q.upstream)
    ELSE Answer("not_found", 404)

\* server_handle_solve without the notification of the solver
server_handle_solve_silent(q) ==
    LET token == parse_qs_response(q.raw)
        a == Answer("solve", 200)
    IN  IF token # None
        THEN [a EXCEPT !.result[q.id] = unquote(token), !.solved[q.id] = TRUE]
        ELSE a

\* server.py, CaptchaHTTPHandler._handle_solve: the log line and the call of
\* _on_captcha_solved are under `if self.solver:`
server_handle_solve(q) ==
    LET token == parse_qs_response(q.raw)
        a == Answer("solve", 200)
    IN  IF token # None
        THEN LET b == [a EXCEPT !.result[q.id] = unquote(token),
                                !.solved[q.id] = TRUE]
             IN  IF q.has_solver THEN Notified(b, q.id) ELSE b
        ELSE a

\* server.py, CaptchaHTTPHandler.do_GET and do_POST
server_handler(q) ==
    IF q.id = NoId \/ ~q.has_solver THEN Answer("not_found", 404)
    ELSE IF get_challenge(q.id) = NoId THEN Answer("not_found", 404)
    ELSE IF q.method = "GET"
    THEN CASE q.act = "loaded" -> Answer("loaded", 200)
           [] q.act = "canClose" -> Answer("canClose", 200)
           [] q.act = "solve" -> server_handle_solve(q)
           [] q.act = "unload" -> Answer("unload", 200)
           [] OTHER -> Answer(Dispatch(q.path, q.id, q.act), 200)
    ELSE IF InApi2(q.path)
    THEN Answer("proxy", IF q.upstream = NetworkError THEN 500
                         ELSE q.upstream)
    ELSE Answer("not_found", 404)

\* ------------------------------------------------ start_server/stop_server
SetCaller(t, rec) == ct' = [ct EXCEPT ![t] = rec]

UsedPorts == {address[s] : s \in listening}

\* the socket is open and a thread runs the accept loop: requests are taken
Accepting == listening \cap serving # {}

\* a call of start_server, of solve_challenge (up to start_server) or of
\* stop_server by a thread that is outside a with block
call_start_server(t) ==
    /\ ct[t].pc = "idle" /\ ct[t].scope = "out"
    /\ SetCaller(t, [IdleCaller EXCEPT !.pc = "check", !.op = "start"])
    /\ UNCHANGED <<appVars, solver2, server, port, server_thread, address, listening,
                   serving, nextSrv>>

\* solve_challenge: if not self.server: self.start_server()
solve_challenge_ensure_server(t) ==
    /\ ct[t].pc = "idle" /\ ct[t].scope = "out"
    /\ IF server = NoSrv
       THEN SetCaller(t, [IdleCaller EXCEPT !.pc = "check", !.op = "solve"])
       ELSE SetCaller(t, [IdleCaller EXCEPT !.pc = "done", !.op = "solve"])
    /\ UNCHANGED <<appVars, solver2, server, port, server_thread, address, listening,
                   serving, nextSrv>>

call_stop_server(t) ==
    /\ ct[t].pc = "idle" /\ ct[t].scope = "out"
    /\ SetCaller(t, [IdleCaller EXCEPT !.pc = "stop_check", !.op = "stop"])
    /\ UNCHANGED <<appVars, solver2, server, port, server_thread, address, listening,
                   serving, nextSrv>>

\* with CaptchaSolver(...) as solver: __enter__ calls start_server
enter_scope(t) ==
    /\ ct[t].pc = "idle" /\ ct[t].scope = "out"
    /\ SetCaller(t, [IdleCaller EXCEPT !.pc = "check", !.op = "enter"])
    /\ UNCHANGED <<appVars, solver2, server, port, server_thread, address, listening,
                   serving, nextSrv>>

\* exit_scope that stops the server only when the body ended normally
exit_scope_normal_only(t, exc) ==
    /\ ct[t].pc = "idle" /\ ct[t].scope = "in"
    /\ SetCaller(t, [ct[t] EXCEPT !.pc = IF exc THEN "done" ELSE "stop_check",
                                  !.op = "exit", !.exc = exc])
    /\ UNCHANGED <<appVars, solver2, server, port, server_thread, address, listening,
                   serving, nextSrv>>

\* the body of the with block ends, normally or by an exception:
\* __exit__(exc_type, exc_val, exc_tb) calls stop_server either way
exit_scope(t, exc) ==
    /\ ct[t].pc = "idle" /\ ct[t].scope = "in"
    /\ SetCaller(t, [ct[t] EXCEPT !.pc = "stop_check", !.op = "exit",
                                  !.exc = exc])
    /\ UNCHANGED <<appVars, solver2, server, port, server_thread, address, listening,
                   serving, nextSrv>>

\* start_server: if self.server: return self.port
start_server_check(t) ==
    /\ ct[t].pc = "check"
    /\ IF server # NoSrv
       THEN SetCaller(t, [ct[t] EXCEPT !.pc = "done", !.ret = port])
       ELSE SetCaller(t, [ct[t] EXCEPT !.pc = "bind"])
    /\ UNCHANGED <<appVars, solver2, server, port, server_thread, address, listening,
                   serving, nextSrv>>

\* self.server = ThreadingHTTPServer(('localhost', self.port), ...): the
\* constructor binds and listens.  Port 0 gets a free port; a port on which
\* another socket listens raises OSError (address already in use).
start_server_bind(t) ==
    /\ ct[t].pc = "bind"
    /\ nextSrv <= MaxServers
    /\ IF port # AnyPort /\ port \in UsedPorts
       THEN /\ SetCaller(t, [ct[t] EXCEPT !.pc = "done", !.err = "OSError"])
            /\ UNCHANGED <<server, address, listening, nextSrv>>
       ELSE /\ \E p \in Ports \ UsedPorts :
                 /\ port # AnyPort => p = port
                 /\ address' = [address EXCEPT ![nextSrv] = p]
            /\ listening' = listening \cup {nextSrv}
            /\ server' = nextSrv
            /\ nextSrv' = nextSrv + 1
            /\ SetCaller(t, [ct[t] EXCEPT !.pc = "port"])
    /\ UNCHANGED <<appVars, solver2, port, server_thread, serving>>

\* self.port = self.server.server_address[1]
start_server_port(t) ==
    /\ ct[t].pc = "port"
    /\ IF server = NoSrv
       THEN /\ port' = port
            /\ SetCaller(t, [ct[t] EXCEPT !.pc = "done",
                                          !.err = "AttributeError"])
       ELSE /\ port' = address[server]
            /\ SetCaller(t, [ct[t] EXCEPT !.pc = "thread"])
    /\ UNCHANGED <<appVars, solver2, server, server_thread, address, listening,
                   serving, nextSrv>>

\* self.server_thread = Thread(target=self.server.serve_forever), daemon,
\* started; return self.port
start_server_thread(t) ==
    /\ ct[t].pc = "thread"
    /\ IF server = NoSrv
       THEN /\ UNCHANGED <<server_thread, serving>>
            /\ SetCaller(t, [ct[t] EXCEPT !.pc = "done",
                                          !.err = "AttributeError"])
       ELSE /\ server_thread' = server
            /\ serving' = serving \cup {server}
            /\ SetCaller(t, [ct[t] EXCEPT !.pc = "done", !.ret = port])
    /\ UNCHANGED <<appVars, solver2, server, port, address, listening, nextSrv>>

\* stop_server: if self.server:
stop_server_check(t) ==
    /\ ct[t].pc = "stop_check"
    /\ SetCaller(t, [ct[t] EXCEPT !.pc = IF server # NoSrv THEN "shutdown"
                                         ELSE "join"])
    /\ UNCHANGED <<appVars, solver2, server, port, server_thread, address, listening,
                   serving, nextSrv>>

\* self.server.shutdown(): returns when the serve_forever loop has ended
\* (it waits for as long as no loop runs)
stop_server_shutdown(t) ==
    /\ ct[t].pc = "shutdown"
    /\ IF server = NoSrv
       THEN /\ serving' = serving
            /\ SetCaller(t, [ct[t] EXCEPT !.pc = "done",
                                          !.err = "AttributeError"])
       ELSE /\ server \in serving
            /\ serving' = serving \ {server}
            /\ SetCaller(t, [ct[t] EXCEPT !.pc = "close"])
    /\ UNCHANGED <<appVars, solver2, server, port, server_thread, address, listening,
                   nextSrv>>

\* self.server.server_close(); self.server = None.  ThreadingMixIn's
\* server_close joins the non-daemon request threads only, and
\* daemon_threads is True: the handlers in flight are left running.
stop_server_close(t) ==
    /\ ct[t].pc = "close"
    /\ IF server = NoSrv
       THEN /\ UNCHANGED <<server, listening>>
            /\ SetCaller(t, [ct[t] EXCEPT !.pc = "done",
                                          !.err = "AttributeError"])
       ELSE /\ listening' = listening \ {server}
            /\ server' = NoSrv
            /\ SetCaller(t, [ct[t] EXCEPT !.pc = "join"])
    /\ UNCHANGED <<appVars, solver2, port, server_thread, address, serving, nextSrv>>

\* if self.server_thread: self.server_thread.join(timeout=5);
\* self.server_thread = None
stop_server_join(t) ==
    /\ ct[t].pc = "join"
    /\ server_thread' = NoSrv
    /\ SetCaller(t, [ct[t] EXCEPT !.pc = "done"])
    /\ UNCHANGED <<appVars, solver2, server, port, address, listening, serving,
                   nextSrv>>

\* the call returns to the application (or its exception does); __enter__
\* puts the thread inside the with block, __exit__ outside
caller_return(t) ==
    /\ ct[t].pc = "done"
    /\ SetCaller(t, [IdleCaller EXCEPT !.scope =
                        IF ct[t].op = "enter" /\ ct[t].err = None THEN "in"
                        ELSE "out"])
    /\ UNCHANGED <<appVars, solver2, server, port, server_thread, address, listening,
                   serving, nextSrv>>

\* start_server of the second solver, called by its one thread and run to
\* its return: nothing when it runs already; else the constructor binds
\* self.port (a free port for 0, OSError for a port in use), self.port
\* becomes the bound port and the accept loop starts.
solver2_start_server ==
    /\ nextSrv <= MaxServers
    /\ IF solver2.server # NoSrv
       THEN /\ solver2' = [solver2 EXCEPT !.err = None]
            /\ UNCHANGED <<address, listening, serving, nextSrv>>
       ELSE IF solver2.port # AnyPort /\ solver2.port \in UsedPorts
       THEN /\ solver2' = [solver2 EXCEPT !.err = "OSError"]
            /\ UNCHANGED <<address, listening, serving, nextSrv>>
       ELSE /\ \E p \in Ports \ UsedPorts :
                 /\ solver2.port # AnyPort => p = solver2.port
                 /\ address' = [address EXCEPT ![nextSrv] = p]
                 /\ solver2' = [server |-> nextSrv, port |-> p, err |-> None]
            /\ listening' = listening \cup {nextSrv}
            /\ serving' = serving \cup {nextSrv}
            /\ nextSrv' = nextSrv + 1
    /\ UNCHANGED <<appVars, server, port, server_thread, ct>>

\* stop_server of the second solver, run to its return: the accept loop
\* ends, the socket is closed, self.server = None; self.port keeps the
\* port that was bound.
solver2_stop_server ==
    /\ solver2.server # NoSrv
    /\ listening' = listening \ {solver2.server}
    /\ serving' = serving \ {solver2.server}
    /\ solver2' = [solver2 EXCEPT !.server = NoSrv, !.err = None]
    /\ UNCHANGED <<appVars, server, port, server_thread, address, nextSrv, ct>>

\* --------------------------------- CaptchaSolver.cleanup_expired_challenges
\* The list comprehension iterates self.challenges.items().  Other threads
\* run while is_expired() (Python code) evaluates an item; the dict iterator
\* raises RuntimeError when it is asked for the next item after the dict
\* changed size.  cleanup_begin creates the iterator and takes the first item.
\* the comprehension's filter: if challenge.is_expired()
ScanItem(c, acc) == IF is_expired(c) THEN Append(acc, c) ELSE acc

cleanup_begin ==
    /\ cl.pc = "idle"
    /\ IF challenges = <<>>
       THEN cl' = [IdleCleanup EXCEPT !.pc = "done"]
       ELSE cl' = [IdleCleanup EXCEPT !.pc = "scan", !.size = Len(challenges),
                                      !.idx = 2,
                                      !.expired = ScanItem(challenges[1], <<>>)]
    /\ UNCHANGED <<srvVars, now, nextId, objVars, challenges, solution_callbacks,
                   invoked, in_time, rq, w, ls>>

\* the dict iterator's next step: RuntimeError, the end, or the next item
cleanup_scan ==
    /\ cl.pc = "scan"
    /\ IF Len(challenges) # cl.size
       THEN cl' = [cl EXCEPT !.pc = "done", !.err = "RuntimeError"]
       ELSE IF cl.idx > Len(challenges)
       THEN cl' = [cl EXCEPT !.pc = IF cl.expired = <<>> THEN "done" ELSE "del",
                             !.idx = 1]
       ELSE cl' = [cl EXCEPT !.idx = @ + 1,
                             !.expired = ScanItem(challenges[cl.idx], @)]
    /\ UNCHANGED <<srvVars, now, nextId, objVars, challenges, solution_callbacks,
                   invoked, in_time, rq, w, ls>>

\* del self.challenges[challenge_id]
cleanup_del ==
    /\ cl.pc = "del"
    /\ IF cl.expired[cl.idx] \in Range(challenges)
       THEN /\ challenges' = Remove(challenges, cl.expired[cl.idx])
            /\ cl' = [cl EXCEPT !.pc = "cb_check"]
       ELSE /\ challenges' = challenges
            /\ cl' = [cl EXCEPT !.pc = "done", !.err = "KeyError"]
    /\ UNCHANGED <<srvVars, now, nextId, objVars, solution_callbacks, invoked,
                   in_time, rq, w, ls>>

\* CleanupAdvance leaving the loop after the first expired id (a break at
\* the end of the loop body)
CleanupAdvance_first_only == [cl EXCEPT !.pc = "done"]

CleanupAdvance ==
    IF cl.idx = Len(cl.expired) THEN [cl EXCEPT !.pc = "done"]
    ELSE [cl EXCEPT !.pc = "del", !.idx = @ + 1]

\* if challenge_id in self.solution_callbacks:
cleanup_cb_check ==
    /\ cl.pc = "cb_check"
    /\ IF cl.expired[cl.idx] \in solution_callbacks
       THEN cl' = [cl EXCEPT !.pc = "cb_del"]
       ELSE cl' = CleanupAdvance
    /\ UNCHANGED <<srvVars, now, nextId, objVars, challenges, solution_callbacks,
                   invoked, in_time, rq, w, ls>>

\* cleanup_cb_del that notifies the callback it discards
cleanup_cb_del_notifying ==
    /\ cl.pc = "cb_del"
    /\ IF cl.expired[cl.idx] \in solution_callbacks
       THEN /\ solution_callbacks' = solution_callbacks \ {cl.expired[cl.idx]}
            /\ invoked' = [invoked EXCEPT ![cl.expired[cl.idx]] = @ + 1]
            /\ cl' = CleanupAdvance
       ELSE /\ solution_callbacks' = solution_callbacks
            /\ invoked' = invoked
            /\ cl' = [cl EXCEPT !.pc = "done", !.err = "KeyError"]
    /\ UNCHANGED <<srvVars, now, nextId, objVars, challenges, in_time, rq, w, ls>>

\*     del self.solution_callbacks[challenge_id]
cleanup_cb_del ==
    /\ cl.pc = "cb_del"
    /\ IF cl.expired[cl.idx] \in solution_callbacks
       THEN /\ solution_callbacks' = solution_callbacks \ {cl.expired[cl.idx]}
            /\ cl' = CleanupAdvance
       ELSE /\ solution_callbacks' = solution_callbacks
            /\ cl' = [cl EXCEPT !.pc = "done", !.err = "KeyError"]
    /\ UNCHANGED <<srvVars, now, nextId, objVars, challenges, invoked, in_time,
                   rq, w, ls>>

\* the application calls cleanup_expired_challenges again as soon as a call
\* has returned without an exception: cleanup_return and cleanup_begin in
\* one step.  cl.again marks the second call and cl.left keeps what the
\* first call left of the registry and of the callback table.
cleanup_again ==
    /\ cl.pc = "done" /\ cl.err = None /\ ~cl.again
    /\ LET second == [IdleCleanup EXCEPT
                         !.again = TRUE,
                         !.left = <<challenges, solution_callbacks>>]
       IN  IF challenges = <<>>
           THEN cl' = [second EXCEPT !.pc = "done"]
           ELSE cl' = [second EXCEPT !.pc = "scan", !.size = Len(challenges),
                                     !.idx = 2,
                                     !.expired = ScanItem(challenges[1], <<>>)]
    /\ UNCHANGED <<srvVars, now, nextId, objVars, challenges, solution_callbacks,
                   invoked, in_time, rq, w, ls>>

\* cleanup_expired_challenges returns (or its exception reaches the caller)
cleanup_return ==
    /\ cl.pc = "done"
    /\ cl' = IdleCleanup
    /\ UNCHANGED <<srvVars, now, nextId, objVars, challenges, solution_callbacks,
                   invoked, in_time, rq, w, ls>>

\* ------------------------------------------- CaptchaSolver.list_challenges
\* list.sort(key=lambda x: x.remaining): stable, ascending
RECURSIVE InsertJob(_, _)
InsertJob(sorted, job) ==
    IF sorted = <<>> THEN <<job>>
    ELSE IF job.remaining < Head(sorted).remaining
    THEN <<job>> \o sorted
    ELSE <<Head(sorted)>> \o InsertJob(Tail(sorted), job)

RECURSIVE SortJobs(_)
SortJobs(jobs) ==
    IF jobs = <<>> THEN <<>>
    ELSE InsertJob(SortJobs(SubSeq(jobs, 1, Len(jobs) - 1)), jobs[Len(jobs)])

ListItem(c, acc) ==
    IF ~solved[c] /\ ~is_expired(c)
    THEN Append(acc, [id |-> c, remaining |-> get_remaining_timeout(c)])
    ELSE acc

\* for challenge in self.challenges.values(): the iterator is created and
\* the first item taken; without items the (empty) list is returned at once
list_begin ==
    /\ ls.pc = "idle"
    /\ IF challenges = <<>>
       THEN ls' = [IdleList EXCEPT !.pc = "done"]
       ELSE ls' = [IdleList EXCEPT !.pc = "scan", !.size = Len(challenges),
                                   !.idx = 2,
                                   !.jobs = ListItem(challenges[1], <<>>)]
    /\ UNCHANGED <<srvVars, now, nextId, objVars, challenges, solution_callbacks,
                   invoked, in_time, rq, w, cl>>

\* the next item of the iteration; after the last one: jobs.sort(...);
\* return jobs
list_scan ==
    /\ ls.pc = "scan"
    /\ IF Len(challenges) # ls.size
       THEN ls' = [ls EXCEPT !.pc = "done", !.err = "RuntimeError", !.jobs = <<>>]
       ELSE IF ls.idx > Len(challenges)
       THEN ls' = [ls EXCEPT !.pc = "done", !.jobs = SortJobs(@)]
       ELSE ls' = [ls EXCEPT !.idx = @ + 1,
                             !.jobs = ListItem(challenges[ls.idx], @)]
    /\ UNCHANGED <<srvVars, now, nextId, objVars, challenges, solution_callbacks,
                   invoked, in_time, rq, w, cl>>

list_return ==
    /\ ls.pc = "done"
    /\ ls' = IdleList
    /\ UNCHANGED <<srvVars, now, nextId, objVars, challenges, solution_callbacks,
                   invoked, in_time, rq, w, cl>>

\* ------------------------------------------------------------ next state
\* the page's script sends its actions to the page's own URL; the assets and
\* the page are fetched without an action
PathsOf(act) == IF act = "none" THEN Paths ELSE {"/captcha/"}

RequestStep(r, acts) ==
    \/ \E id \in Ids \cup {NoId}, act \in acts, raw \in RawResponses :
          \E path \in PathsOf(act) : do_GET(r, path, id, act, raw)
    \/ handle_solve_result(r)
    \/ handle_solve_solved(r)
    \/ on_captcha_solved_get(r)
    \/ on_captcha_solved_call(r)
    \/ on_captcha_solved_del(r)
    \/ finish_request(r)

PostStep(r) ==
    \/ \E path \in PostPaths, id \in Ids \cup {NoId}, upstream \in Upstreams :
          \E script \in BOOLEAN, js \in UpstreamBodies :
              do_POST(r, path, id, upstream, script, js)
    \/ finish_request(r)

CallStep ==
    \E c \in Ids, t \in WaitTimeouts, cb \in BOOLEAN : solve_challenge(c, t, cb)

WaitStep ==
    \/ wait_for_solution_start
    \/ wait_for_solution_loop
    \/ wait_for_solution_check
    \/ wait_for_solution_return
    \/ wait_for_solution_wake

CleanupStep ==
    \/ cleanup_begin
    \/ cleanup_scan
    \/ cleanup_del
    \/ cleanup_cb_check
    \/ cleanup_cb_del
    \/ cleanup_return

ListStep ==
    \/ list_begin
    \/ list_scan
    \/ list_return

CreateStep == \E t \in Timeouts : create_challenge(t)

CreateIdStep == \E k \in Ids, t \in Timeouts : create_challenge_id(k, t)

RequestsIdle(S) == \A r \in Req \ S : rq[r].pc = "idle"

\* Spec: the service as a single-threaded caller and a browser that sends one
\* request at a time see it.  One registry operation or request handler runs
\* at a time, start to end, and no time passes meanwhile; the waiter of
\* solve_challenge runs beside them, one poll step at a time.
Next ==
    \/ RequestsIdle({}) /\ cl.pc = "idle" /\ ls.pc = "idle"
          /\ Tick
    \/ RequestsIdle({}) /\ cl.pc = "idle" /\ ls.pc = "idle" /\ CreateStep
    \/ RequestsIdle({"r1"}) /\ cl.pc = "idle" /\ ls.pc = "idle"
          /\ RequestStep("r1", Actions)
    \/ RequestsIdle({}) /\ ls.pc = "idle" /\ CleanupStep
    \/ RequestsIdle({}) /\ cl.pc = "idle" /\ ListStep

Spec == Init /\ [][Next]_vars

\* ConcSpec: the worker threads of the endpoint and a cleanup interleave
\* step by step around one challenge; solve_challenge has registered its
\* callback and its thread is not scheduled further (it only reads).
\* A new request takes worker r1 when both workers are free.
ConcNext ==
    \/ Tick
    \/ nextId = 1 /\ CreateStep
    \/ CallStep
    \/ RequestStep("r1", {"solve"})
    \/ rq["r1"].pc # "idle" /\ RequestStep("r2", {"solve"})
    \/ CleanupStep

ConcSpec == Init /\ [][ConcNext]_vars

\* RegSpec: the caller's threads interleave step by step on the registry.
\* No callback is registered here, so cleanup never reaches its del of one.
RegNext ==
    \/ Tick
    \/ CreateStep
    \/ cleanup_begin
    \/ cleanup_scan
    \/ cleanup_del
    \/ cleanup_cb_check
    \/ cleanup_return
    \/ ListStep

RegSpec == Init /\ [][RegNext]_vars

\* WaitSpec: the waiter beside one worker thread and the clock, on one
\* challenge, every step interleaved.
WaitNext ==
    \/ ~WaiterComputing /\ Tick
    \/ nextId = 1 /\ CreateStep
    \/ CallStep
    \/ WaitStep
    \/ RequestStep("r1", Actions)
    \/ CleanupStep

WaitSpec == Init /\ [][WaitNext]_vars

\* CreateSpec: the caller creates challenges, with the default id or with an
\* id of its own, looks at the list and cleans up, one call at a time.
CreateNext ==
    \/ cl.pc = "idle" /\ ls.pc = "idle" /\ Tick
    \/ cl.pc = "idle" /\ ls.pc = "idle" /\ CreateStep
    \/ cl.pc = "idle" /\ ls.pc = "idle" /\ CreateIdStep
    \/ ls.pc = "idle" /\ cleanup_begin
    \/ cleanup_scan
    \/ cleanup_del
    \/ cleanup_cb_check
    \/ cleanup_return
    \/ cl.pc = "idle" /\ ListStep

CreateSpec == Init /\ [][CreateNext]_vars

\* EndpointSpec: the endpoint's GET and POST handlers, one request at a
\* time, beside the clock, a cleanup and the registration of a callback,
\* around one challenge.
EndpointNext ==
    \/ Tick
    \/ nextId = 1 /\ CreateStep
    \/ CallStep
    \/ RequestStep("r1", Actions)
    \/ PostStep("r1")
    \/ CleanupStep

EndpointSpec == Init /\ [][EndpointNext]_vars

\* FlagSpec: everything that runs beside a record once it exists, around
\* one challenge: the browser's requests on the server's thread, and on the
\* caller's one thread a solve_challenge call with its waiter, a list or a
\* cleanup, one after the other; and the clock.
FlagNext ==
    \/ Tick
    \/ nextId = 1 /\ CreateStep
    \/ cl.pc = "idle" /\ ls.pc = "idle" /\ CallStep
    \/ WaitStep
    \/ RequestStep("r1", Actions)
    \/ w.pc \in {"idle", "done"} /\ ls.pc = "idle" /\ CleanupStep
    \/ w.pc \in {"idle", "done"} /\ cl.pc = "idle" /\ ListStep

FlagSpec == Init /\ [][FlagNext]_vars

\* ParallelSpec: two challenges, a solve_challenge call with its waiter, and
\* two worker threads of the endpoint (ThreadingMixIn starts one per
\* request), every step interleaved, within the first half second: the
\* waiter polls and then sleeps, or returns what it found.  The second
\* worker takes its request while the first is inside a callback.
ParallelNext ==
    \/ nextId <= 2 /\ CreateStep
    \/ CallStep
    \/ wait_for_solution_start
    \/ wait_for_solution_loop
    \/ wait_for_solution_check
    \/ wait_for_solution_return
    \/ RequestStep("r1", {"solve"})
    \/ (rq["r2"].pc = "idle" => rq["r1"].pc = "cb_call")
          /\ RequestStep("r2", {"solve", "canClose"})

ParallelSpec == Init /\ [][ParallelNext]_vars

\* IsolationSpec: two challenges, the application's thread calling
\* solve_challenge one call after the other, and the browser's do=solve
\* requests for either challenge, within the first half second.
IsolationNext ==
    \/ nextId <= 2 /\ CreateStep
    \/ CallStep
    \/ wait_for_solution_start
    \/ wait_for_solution_loop
    \/ wait_for_solution_check
    \/ wait_for_solution_return
    \/ solve_challenge_returned
    \/ RequestStep("r1", {"solve"})

IsolationSpec == Init /\ [][IsolationNext]_vars

\* TwiceSpec: the application creates challenges, registers a callback and
\* lets time pass, and then calls cleanup_expired_challenges, once or twice
\* in a row; nothing else runs during the calls or between them.
TwiceNext ==
    \/ cl.pc = "idle" /\ Tick
    \/ cl.pc = "idle" /\ CreateStep
    \/ cl.pc = "idle" /\ CallStep
    \/ CleanupStep
    \/ cleanup_again

TwiceSpec == Init /\ [][TwiceNext]_vars

\* RouterSpec: the endpoint's GET and POST handlers, one request at a time,
\* around one challenge and the registration of a callback, at one instant.
RouterNext ==
    \/ nextId = 1 /\ CreateStep
    \/ CallStep
    \/ RequestStep("r1", Actions)
    \/ PostStep("r1")

RouterSpec == Init /\ [][RouterNext]_vars

\* CallbackSpec: one solve_challenge call with its waiter, and the browser's
\* do=solve requests for the one challenge, one at a time; the caller runs
\* no cleanup meanwhile.
CallbackNext ==
    \/ ~WaiterComputing /\ Tick
    \/ nextId = 1 /\ CreateStep
    \/ CallStep
    \/ open_browser_failed
    \/ WaitStep
    \/ RequestStep("r1", {"solve"})

CallbackSpec == Init /\ [][CallbackNext]_vars

\* the steps of start_server and stop_server, whoever called them
StartSteps(t) ==
    \/ start_server_check(t)
    \/ start_server_bind(t)
    \/ start_server_port(t)
    \/ start_server_thread(t)

StopSteps(t) ==
    \/ stop_server_check(t)
    \/ stop_server_shutdown(t)
    \/ stop_server_close(t)
    \/ stop_server_join(t)

\* StartSpec: two threads of the application start the endpoint, by
\* start_server or by solve_challenge, every step interleaved.
StartNext ==
    \E t \in Callers :
        \/ call_start_server(t)
        \/ solve_challenge_ensure_server(t)
        \/ StartSteps(t)
        \/ caller_return(t)

StartSpec == Init /\ [][StartNext]_vars

\* PortsSpec: two solvers of one process, each started and stopped by its
\* own single thread, the first step by step, on the machine's ports.
PortsNext ==
    \/ call_start_server("t1")
    \/ call_stop_server("t1")
    \/ StartSteps("t1")
    \/ StopSteps("t1")
    \/ caller_return("t1")
    \/ solver2_start_server
    \/ solver2_stop_server

PortsSpec == Init /\ [][PortsNext]_vars

\* ServerSpec: one thread of the application starts and stops the endpoint,
\* directly or as a with block, and creates a challenge; the browser's
\* do=solve requests are taken while the endpoint accepts, and their
\* handler thread runs interleaved with the application's thread.
ServerNext ==
    \/ call_start_server("t1")
    \/ call_stop_server("t1")
    \/ enter_scope("t1")
    \/ \E exc \in BOOLEAN : exit_scope("t1", exc)
    \/ StartSteps("t1")
    \/ StopSteps("t1")
    \/ caller_return("t1")
    \/ nextId = 1 /\ CreateStep
    \/ server # NoSrv /\ \E cb \in BOOLEAN : solve_challenge(1, 1, cb)
    \/ Accepting /\ \E raw \in {"absent", "a"} :
                        do_GET("r1", "/captcha/", 1, "solve", raw)
    \/ handle_solve_result("r1")
    \/ handle_solve_solved("r1")
    \/ on_captcha_solved_get("r1")
    \/ on_captcha_solved_call("r1")
    \/ on_captcha_solved_del("r1")
    \/ finish_request("r1")

ServerSpec == Init /\ [][ServerNext]_vars

\* FairWaitSpec: WaitSpec with the scheduling the program relies on: the wall
\* clock keeps advancing and the waiter's thread keeps being scheduled.
FairWaitSpec ==
    /\ WaitSpec
    /\ WF_vars(~WaiterComputing /\ Tick)
    /\ WF_vars(WaitStep)

\* ================================================================ claims

\* C1: in every state reached by any interleaving of the solve handlers with
\* the other threads, a challenge whose solved flag is true has a result
\* that is present and not empty.
C1_SolvedHasResult ==
    \A c \in Ids : solved[c] => result[c] # None /\ result[c] # ""

\* a challenge is solved while a second solve request is between its two writes
C1_Witness ==
    \E c \in Ids, r \in Req :
        solved[c] /\ rq[r].pc = "set_solved" /\ rq[r].ch = c

\* C2: once a challenge's solved flag is true its result never changes, for
\* any later request, a further do=solve with another response included.
C2_ResultStable ==
    [][\A c \in Ids : solved[c] => result'[c] = result[c]]_vars

\* C3: the callback registered for a challenge id runs at most once, however
\* the do=solve requests for that id interleave.
C3_CallbackOnce == \A c \in Ids : invoked[c] <= 1

\* C4: a callback runs only in a step of the endpoint's solve handler, for a
\* do=solve request with a response payload addressed to the callback's own
\* challenge id; expiry, the other actions, cleanup and the waiter never run it.
C4_OnlySolveInvokes ==
    [][\A c \in Ids : invoked'[c] # invoked[c] =>
          \E r \in Req : /\ rq[r].pc = "cb_call" /\ rq'[r].pc = "cb_del"
                         /\ rq[r].act = "solve" /\ rq[r].resp # None
                         /\ rq[r].ch = c
                         /\ invoked'[c] = invoked[c] + 1]_vars

\* the callback has run and the waiter has returned
C4_Witness ==
    \E c \in Ids : invoked[c] = 1 /\ w.pc = "done" /\ w.ch = c

\* C5: when the challenge was solved before it expired and before the wait
\* deadline, solve_challenge returns its result, not None.
C5_SolvedInTimeReturned ==
    (w.pc = "done" /\ solved[w.ch] /\ in_time[w.ch]) => w.ret # None

\* C6: solve_challenge terminates: once called it returns, with or without
\* any request reaching the endpoint.
C6_Terminates == (w.pc = "open") ~> (w.pc = "done")

\* the waiter has returned None for a challenge no request ever solved
C6_Witness ==
    w.pc = "done" /\ w.ret = None /\ ~solved[w.ch] /\ result[w.ch] = None

\* C7: cleanup_expired_challenges removes all and only the records that are
\* expired (elapsed time since creation at least timeout seconds) when it
\* runs, solved or not: every record that leaves the registry is expired,
\* cleanup adds none, and when it completes it has not failed, no expired
\* record is left and each removed id is absent from get_challenge.
C7_CleanupExact ==
    [][/\ \A c \in Range(challenges) \ Range(challenges') :
             now - created[c] >= timeout[c] * TicksPerSec
       /\ cl.pc # "idle" => Range(challenges') \subseteq Range(challenges)
       /\ (cl.pc # "done" /\ cl'.pc = "done") =>
             /\ cl'.err = None
             /\ \A c \in Range(challenges') :
                   now' - created'[c] < timeout'[c] * TicksPerSec
             /\ \A i \in 1..Len(cl.expired) :
                   get_challenge(cl.expired[i])' = NoId]_vars

\* C8: when cleanup and a do=solve request for the same expired challenge
\* (elapsed time at least timeout seconds) interleave, the callback of an id
\* that cleanup has removed is not run, cleanup does not fail on a missing
\* key, and the request for the removed id is not answered with a server
\* error.
C8_CleanupDiscards ==
    [][/\ \A c \in Ids :
             (/\ now - created[c] >= timeout[c] * TicksPerSec
              /\ invoked'[c] # invoked[c]) => c \in Range(challenges)
       /\ cl'.err # "KeyError"
       /\ \A r \in Req :
             (/\ rq[r].pc # "done" /\ rq'[r].status = 500
              /\ rq[r].ch \in Allocated
              /\ now - created[rq[r].ch] >= timeout[rq[r].ch] * TicksPerSec)
                => rq[r].ch \in Range(challenges)]_vars

\* C9: no registry operation raises, however create_challenge, cleanup and
\* list interleave.
C9_NoRaise == cl.err = None /\ ls.err = None

\* C10: a challenge is expired exactly when the time elapsed since its
\* creation is at least timeout seconds, and its remaining time is 0 exactly
\* when it is expired.
C10_ExpiredIffElapsed ==
    \A c \in Allocated :
        /\ is_expired(c) <=> now - created[c] >= timeout[c] * TicksPerSec
        /\ get_remaining_timeout(c) = 0 <=> is_expired(c)

C12_ExpiredTerminal ==
    [][\A c \in Allocated :
          (now - created[c] >= timeout[c] * TicksPerSec /\ ~solved[c])
             => ~solved'[c]]_vars

\* C13: when list_challenges returns, its jobs are exactly the registered
\* challenges that are not solved and not expired (elapsed time less than
\* timeout seconds), each once, in order of non-decreasing remaining time.
C13_ListExact ==
    [][(ls.pc # "done" /\ ls'.pc = "done") =>
          /\ ls'.err = None
          /\ {ls'.jobs[i].id : i \in 1..Len(ls'.jobs)} =
                {c \in Range(challenges) :
                    ~solved[c] /\ now - created[c] < timeout[c] * TicksPerSec}
          /\ \A i, j \in 1..Len(ls'.jobs) :
                i < j => /\ ls'.jobs[i].id # ls'.jobs[j].id
                         /\ ls'.jobs[i].remaining <= ls'.jobs[j].remaining]_vars

\* C14: a do=canClose request answers true exactly when the challenge is
\* solved or expired (elapsed time at least timeout seconds), so true after
\* a processed solve and false for a pending challenge, and it changes
\* neither the challenges, nor the registry, nor the callback table.
C14_CanClose ==
    [][\A r \in Req :
          (/\ rq[r].pc = "idle" /\ rq'[r].pc = "done"
           /\ rq'[r].act = "canClose" /\ rq'[r].status = 200) =>
             /\ rq'[r].body = "true" <=>
                   \/ solved[rq'[r].ch]
                   \/ now - created[rq'[r].ch]
                         >= timeout[rq'[r].ch] * TicksPerSec
             /\ rq'[r].body \in {"true", "false"}
             /\ UNCHANGED <<objVars, challenges, solution_callbacks>>]_vars

\* C15: a GET or POST request whose id is missing, was never created or has
\* been removed is answered 404 in its first step, whatever action it
\* carries, and no step of it changes a challenge, the registry or the
\* callback table.
C15_NotFound ==
    [][\A r \in Req :
          /\ (/\ rq[r].pc = "idle" /\ rq'[r].pc # "idle"
              /\ rq'[r].id \notin Range(challenges)) =>
                /\ rq'[r].pc = "done" /\ rq'[r].status = 404
                /\ UNCHANGED <<objVars, challenges, solution_callbacks>>
          /\ (/\ rq[r].pc = "done" /\ rq[r].status = 404
              /\ rq'[r] # rq[r]) =>
                UNCHANGED <<objVars, challenges, solution_callbacks>>]_vars

\* a do=solve request for an id that cleanup has removed was answered 404
C15_Witness ==
    \E r \in Req :
        /\ rq[r].pc = "done" /\ rq[r].status = 404 /\ rq[r].act = "solve"
        /\ rq[r].id \in Allocated /\ rq[r].id \notin Range(challenges)

\* C16: a GET request without an action for a path ending in .js or .css is
\* answered with the asset, also without an id or with an id that does not
\* resolve.
C16_AssetWithoutId ==
    [][\A r \in Req :
          (/\ rq[r].pc = "idle" /\ rq'[r].pc # "idle"
           /\ rq'[r].method = "GET" /\ rq'[r].act = "none"
           /\ rq'[r].path \in {"/captcha.js", "/style.css"}) =>
             /\ rq'[r].status = 200
             /\ rq'[r].body = IF rq'[r].path = "/captcha.js" THEN "js"
                               ELSE "css"]_vars

\* C17: a callback that raises is contained: the step in which it raises
\* changes no challenge and not the waiter, the handler goes on to remove
\* the callback entry and to answer 200 with the challenge solved and its
\* result the submitted one, and a waiter that polls the challenge
\* afterwards sees it solved and returns the result.
C17_CallbackFailureContained ==
    [][\A r \in Req :
          /\ (rq[r].pc = "cb_call" /\ rq'[r].raised) =>
                /\ rq'[r].pc = "cb_del"
                /\ UNCHANGED <<objVars, challenges, w>>
          /\ (rq[r].pc = "cb_del" /\ rq[r].raised /\ rq'[r] # rq[r]) =>
                /\ rq'[r].pc = "done" /\ rq'[r].status = 200
                /\ rq[r].ch \notin solution_callbacks'
                /\ solved'[rq[r].ch]
                /\ result'[rq[r].ch] = unquote(rq[r].resp)
          /\ (rq[r].raised /\ rq[r].ch = w.ch /\ w.pc = "check"
                /\ w' # w) => w'.pc = "read"
          /\ (rq[r].raised /\ rq[r].ch = w.ch /\ w.pc = "read"
                /\ w' # w) => /\ w'.pc = "done" /\ w'.ret # None
                               /\ w'.ret = result[w.ch]]_vars

\* the callback raised, its request was answered 200 and the waiter has
\* returned the result
C17_Witness ==
    \E r \in Req :
        /\ rq[r].pc = "done" /\ rq[r].raised /\ rq[r].status = 200
        /\ rq[r].ch = w.ch /\ w.pc = "done" /\ w.ret = result[w.ch]
        /\ w.ret # None /\ invoked[w.ch] = 1
        /\ w.ch \notin solution_callbacks

\* C18: starting is idempotent and yields one listener: in every state at
\* most one server object of the solver listens, no start fails, and the
\* starts that have returned have returned the same port, the solver's.
C18_SingleListener ==
    /\ Cardinality(listening) <= 1
    /\ \A t \in Callers : ct[t].err = None
    /\ \A t \in Callers :
          (ct[t].pc = "done" /\ ct[t].op \in {"start", "enter"})
             => ct[t].ret = port /\ port > 0

\* C19: inside a with block the solver runs (server present and listening,
\* port > 0); when __exit__ or stop_server has returned, after a normal end
\* of the body or an exception, the server handle is absent and nothing
\* listens; stop_server on a stopped solver changes nothing.
C19_ScopedResource ==
    [][\A t \in Callers :
          /\ (ct[t].scope = "in" /\ ct[t].pc = "idle") =>
                /\ server # NoSrv /\ port > 0
                /\ server \in listening /\ server \in serving
          /\ (ct'[t].pc = "done" /\ ct'[t].op \in {"stop", "exit"}) =>
                /\ server' = NoSrv /\ server_thread' = NoSrv
                /\ listening' = {} /\ serving' = {}
                /\ ct'[t].err = None
          /\ (ct[t].op = "stop" /\ server = NoSrv /\ server_thread = NoSrv
                /\ ct[t].pc # "done") =>
                UNCHANGED <<server, port, server_thread, address, listening,
                            serving, nextSrv>>]_vars

\* the body of a with block raised, and __exit__ has stopped the server
C19_Witness ==
    \E t \in Callers :
        /\ ct[t].pc = "done" /\ ct[t].op = "exit" /\ ct[t].exc
        /\ server = NoSrv /\ nextSrv > 1

\* C20: once stop_server has returned (the server handle and its thread are
\* cleared, nothing listens, and the application's thread is back from the
\* call) no step changes a challenge's solved or result or runs a callback,
\* as a request handler that is still executing would.
C20_StopJoinsWorkers ==
    [][(/\ nextSrv > 1 /\ server = NoSrv /\ server_thread = NoSrv
        /\ listening = {}
        /\ \A t \in Callers : ct[t].pc \in {"idle", "done"}) =>
          UNCHANGED <<solved, result, invoked>>]_vars

\* C21: get_challenge of an id in the registry returns the record that
\* create_challenge stored under it, the same record in every later state
\* until a cleanup removes it; a record is unsolved and without result when
\* it appears; get_challenge of an id that is not in the registry is absent.
C21_GetChallenge ==
    [][/\ \A c \in Range(challenges) :
             \/ /\ get_challenge(c)' = c
                /\ created'[c] = created[c] /\ timeout'[c] = timeout[c]
             \/ cl.pc = "del" /\ get_challenge(c)' = NoId
       /\ \A c \in Range(challenges') \ Range(challenges) :
             get_challenge(c)' = c /\ ~solved'[c] /\ result'[c] = None
       /\ \A k \in Ids \ Range(challenges) : get_challenge(k) = NoId]_vars

\* C22: a step that creates a record (it stamps a creation time or a
\* timeout, or the registry grows) stores it under an id that was never used before, grows
\* the registry by exactly that one record, and leaves every record created
\* before as it was.
C22_CreateFresh ==
    [][(\/ created' # created \/ timeout' # timeout
        \/ Len(challenges') > Len(challenges)) =>
          /\ \E k \in Ids \ Allocated : challenges' = Append(challenges, k)
          /\ \A c \in Allocated :
                /\ created'[c] = created[c] /\ timeout'[c] = timeout[c]
                /\ solved'[c] = solved[c] /\ result'[c] = result[c]]_vars

\* C23: a POST that is forwarded makes one upstream call at most, and when
\* that call comes back with a status outside 200..299, or fails, the
\* browser is answered 500.
C23_UpstreamFailureIs500 ==
    [][\A r \in Req :
          (/\ rq[r].pc = "idle" /\ rq'[r].pc # "idle"
           /\ rq'[r].method = "POST") =>
             /\ rq'[r].calls <= 1
             /\ (rq'[r].calls = 1 /\ rq'[r].upstream \notin 200..299)
                   => rq'[r].status = 500]_vars

\* C24: the URL that the script rewrite puts in the place of the
\* third-party API URL, in the script served for a registered challenge c,
\* when it is POSTed to the endpoint, resolves to c and is forwarded.
C24_RewriteLoopsBack ==
    [][\A r \in Req, c \in Range(challenges) :
          LET url == modify_recaptcha_js(
                        [origin |-> "https://www.google.com",
                         path |-> "/recaptcha/api2/reload", id |-> NoId], c)
          IN  (/\ rq[r].pc = "idle" /\ rq'[r].pc # "idle"
               /\ rq'[r].method = "POST"
               /\ rq'[r].path = url.path /\ rq'[r].id = url.id) =>
                 /\ rq'[r].ch = c /\ rq'[r].calls = 1
                 /\ rq'[r].status # 404]_vars

\* C25: the result that a do=solve request stores is the value of its
\* response parameter decoded once, which is what parse_qs made of it.
C25_DecodedOnce ==
    [][\A r \in Req :
          (rq[r].pc = "solve" /\ rq'[r].pc = "set_solved") =>
             result'[rq[r].ch] = rq[r].resp]_vars

\* C26: when opening the URL failed, solve_challenge has still registered
\* the callback and waited, nothing was raised to the caller, and it returns
\* the result if the challenge was solved before the deadline and before it
\* expired, a result only for a solved challenge, and None for an unsolved
\* one.
C26_OpenFailureTolerated ==
    ~w.opened =>
        /\ w.pc \in {"loop", "check", "read", "sleep", "done"}
        /\ (w.pc = "done" /\ solved[w.ch] /\ in_time[w.ch]) => w.ret # None
        /\ (w.pc = "done" /\ w.ret # None) => solved[w.ch]
        /\ (w.pc = "done" /\ ~solved[w.ch]) => w.ret = None

C28_FreePort ==
    /\ (ct["t1"].op = "start" /\ ct["t1"].pc = "done") =>
          /\ ct["t1"].err = None
          /\ server # NoSrv /\ server \in listening
          /\ ct["t1"].ret = port /\ port > 0 /\ port = address[server]
    /\ (server \in listening /\ solver2.server \in listening) =>
          address[server] # address[solver2.server]

\* the steps a worker thread can take once it has its request
HandlerStep(q) ==
    \/ handle_solve_result(q)
    \/ handle_solve_solved(q)
    \/ on_captcha_solved_get(q)
    \/ on_captcha_solved_call(q)
    \/ on_captcha_solved_del(q)
    \/ finish_request(q)

\* C29: the endpoint does not serialize unrelated work: while one handler
\* is inside the callback of a solve and the caller waits in
\* solve_challenge, another worker can take a solve request or a canClose
\* poll for any challenge, and a worker that has a request can take its next
\* step, up to its response.
C29_NotSerialized ==
    \A r \in Req :
        (rq[r].pc = "cb_call" /\ w.pc \in {"loop", "check", "read", "sleep"}) =>
            \A q \in Req \ {r} :
                IF rq[q].pc = "idle"
                THEN \A id \in Ids :
                        /\ ENABLED do_GET(q, "/captcha/", id, "solve", "a")
                        /\ ENABLED do_GET(q, "/captcha/", id, "canClose",
                                          "absent")
                ELSE ENABLED HandlerStep(q)

\* a handler is inside the callback for the challenge the caller waits for,
\* and meanwhile the other worker has solved another challenge and answered
\* 200
C29_Witness ==
    /\ rq["r1"].pc = "cb_call" /\ rq["r1"].ch = w.ch /\ w.pc = "sleep"
    /\ rq["r2"].pc = "done" /\ rq["r2"].status = 200
    /\ rq["r2"].act = "solve" /\ rq["r2"].ch # w.ch
    /\ solved[rq["r2"].ch]

\* C30: a GET with do=loaded, unload or canClose, without an action or with
\* an unrecognised one is answered in full without a change of the
\* registry, of any challenge's fields or of the callback table.
C30_ReadOnlyActions ==
    [][\A r \in Req :
          (/\ rq[r].pc = "idle" /\ rq'[r].pc # "idle"
           /\ rq'[r].method = "GET"
           /\ rq'[r].act \in Actions \ {"solve"}) =>
             /\ rq'[r].pc = "done"
             /\ UNCHANGED <<objVars, challenges, solution_callbacks>>]_vars

\* an unload was answered OK for a solved challenge that is still in the
\* registry with its callback
C30_Witness ==
    \E r \in Req :
        /\ rq[r].pc = "done" /\ rq[r].act = "unload" /\ rq[r].status = 200
        /\ rq[r].body = "OK" /\ solved[rq[r].ch]
        /\ rq[r].ch \in Range(challenges)
        /\ rq[r].ch \in solution_callbacks

\* C31: a do=solve request for a registered challenge without a response
\* parameter, or with an empty one, has no token; its handler answers in
\* one step that leaves solved, result and the callback table unchanged and
\* invokes no callback.
C31_SolveWithoutToken ==
    [][/\ parse_qs_response("absent") = None
       /\ parse_qs_response("") = None
       /\ \A r \in Req :
             (rq[r].pc = "solve" /\ rq[r].resp = None /\ rq'[r] # rq[r]) =>
                /\ rq'[r].pc = "done" /\ rq'[r].status = 200
                /\ UNCHANGED <<solved, result, solution_callbacks, invoked>>]_vars

\* a token-less do=solve was answered for an unsolved challenge whose
\* callback is registered and was never invoked
C31_Witness ==
    \E r \in Req :
        /\ rq[r].pc = "done" /\ rq[r].act = "solve" /\ rq[r].resp = None
        /\ rq[r].status = 200 /\ rq[r].ch \in Range(challenges)
        /\ ~solved[rq[r].ch] /\ result[rq[r].ch] = None
        /\ rq[r].ch \in solution_callbacks /\ invoked[rq[r].ch] = 0

\* C32: a request addressed to challenge A affects only A: taking the
\* request resolves its id to that challenge and changes nothing, and every
\* step of its do=solve handler leaves the fields of every other challenge,
\* the invocation count of every other callback and every other entry of
\* the callback table as they were.
C32_OnlyAddressed ==
    [][\A r \in Req :
          /\ (rq[r].pc = "idle" /\ rq'[r] # rq[r]) =>
                /\ rq'[r].ch \in {NoId, rq'[r].id}
                /\ UNCHANGED <<objVars, challenges, solution_callbacks,
                               invoked>>
          /\ (rq[r].pc \in {"solve", "set_solved", "cb_get", "cb_call",
                             "cb_del"} /\ rq'[r] # rq[r]) =>
                /\ rq'[r].ch = rq[r].ch
                /\ \A c \in Ids \ {rq[r].ch} :
                      /\ solved'[c] = solved[c] /\ result'[c] = result[c]
                      /\ created'[c] = created[c]
                      /\ timeout'[c] = timeout[c]
                      /\ invoked'[c] = invoked[c]
                      /\ (c \in solution_callbacks') =
                            (c \in solution_callbacks)]_vars

\* a do=solve for one challenge has run its callback and removed it, while
\* the other challenge is unsolved with its callback registered and never
\* invoked
C32_Witness ==
    \E r \in Req, c \in Ids :
        /\ rq[r].pc = "done" /\ rq[r].status = 200 /\ rq[r].cb
        /\ c # rq[r].ch /\ solved[rq[r].ch] /\ invoked[rq[r].ch] = 1
        /\ rq[r].ch \notin solution_callbacks
        /\ c \in solution_callbacks /\ c \in Range(challenges)
        /\ ~solved[c] /\ result[c] = None /\ invoked[c] = 0

\* C33: cleanup_expired_challenges is idempotent: a second call that
\* directly follows a first one, with no time and no other operation
\* between them, does not fail, and throughout it the registry and the
\* callback table are what the first call left.
C33_CleanupIdempotent ==
    cl.again =>
        /\ cl.err = None
        /\ cl.pc \in {"scan", "done"}
        /\ challenges = cl.left[1]
        /\ solution_callbacks = cl.left[2]

\* the second call has completed after a first call that removed a
\* challenge with its callback and kept another
C33_Witness ==
    /\ cl.again /\ cl.pc = "done"
    /\ challenges # <<>>
    /\ \E c \in Allocated \ Range(challenges) :
          c = w.ch /\ c \notin solution_callbacks

\* C34: what solve_challenge returns, when it is not None, is a token that
\* was submitted for that challenge: a result is only ever written by the
\* handler of a do=solve request addressed to that challenge, as the token
\* that request carried, and the waiter returns the result of its own
\* challenge, which is solved at that moment.
C34_ReturnsSubmittedToken ==
    [][/\ \A c \in Ids :
             result'[c] # result[c] =>
                \E r \in Req :
                    /\ rq[r].pc = "solve" /\ rq[r].ch = c /\ rq[r].id = c
                    /\ rq[r].resp # None
                    /\ result'[c] = rq[r].resp
       /\ (w.pc # "done" /\ w'.pc = "done" /\ w'.ret # None) =>
             /\ w'.ret = result[w.ch]
             /\ solved[w.ch]]_vars

\* C35: when solve_challenge has returned, with a result or with None, no
\* callback is registered for its challenge.
C35_CallbackGoneAfterReturn ==
    w.pc = "done" => w.ch \notin solution_callbacks

\* C36: error responses are atomic: a do=solve handler that has written the
\* challenge's result and solved flag answers with the confirmation page
\* (200), never with 500, whatever other solve requests and cleanup do
\* meanwhile; a request answered 500 has written neither.
C36_ErrorAtomic ==
    [][\A r \in Req :
          (/\ rq[r].pc \in {"cb_get", "cb_call", "cb_del"}
           /\ rq'[r].pc = "done") => rq'[r].status = 200]_vars

\* C37: whenever no cleanup is under way, every id that has an entry in the
\* callback table has a record in the registry.
C37_CallbacksInRegistry ==
    cl.pc = "idle" => solution_callbacks \subseteq Range(challenges)

\* C38: for every proxied response, the Content-Length that is forwarded
\* to the browser equals the number of body bytes written, also when the
\* body is a script that was rewritten and extended.
C38_ContentLength ==
    \A r \in Req :
        (/\ rq[r].pc = "done" /\ rq[r].method = "POST"
         /\ rq[r].calls = 1 /\ rq[r].upstream # NetworkError) =>
            rq[r].announced = rq[r].written

\* C39: the handler of server.py and the handler of solver.py are
\* equivalent as routers: in every reachable state and for every request,
\* both take the same branch, send the same status and leave the same
\* solved, result, callback table and callback invocations; and the
\* requests the endpoint answers in one step are answered with the status
\* the router gives.
C39_HandlersEquivalent ==
    /\ [](\A q \in GetRequests \cup PostRequests :
             solver_handler(q) = server_handler(q))
    /\ [][\A r \in Req :
             (rq[r].pc = "idle" /\ rq'[r].pc = "done") =>
                LET q == [method |-> rq'[r].method, path |-> rq'[r].path,
                          id |-> rq'[r].id, act |-> rq'[r].act,
                          raw |-> "absent", upstream |-> rq'[r].upstream,
                          has_solver |-> TRUE]
                IN  /\ q \in GetRequests \cup PostRequests
                    /\ rq'[r].status = solver_handler(q).status]_vars

\* a challenge is registered and unsolved with its callback, and a do=solve
\* with a token for it is routed by server.py's handler to _handle_solve,
\* which solves it and runs and removes the callback
C39_Witness ==
    \E c \in Range(challenges) :
        /\ c \in solution_callbacks /\ ~solved[c]
        /\ LET a == server_handler([method |-> "GET", path |-> "/captcha/",
                                    id |-> c, act |-> "solve", raw |-> "a",
                                    upstream |-> NetworkError,
                                    has_solver |-> TRUE])
           IN  /\ a.branch = "solve" /\ a.status = 200 /\ a.solved[c]
               /\ a.result[c] = "a" /\ c \notin a.callbacks
               /\ a.invoked[c] = invoked[c] + 1

=============================================================================
